---- MODULE Spec2Model ----
(***************************************************************************)
(* GrammarRAG (python/vedyut/llm/rag.py): the chunk loader, the embedding  *)
(* index with its persisted artifact, and the retrieval engine; and the    *)
(* generation tasks of python/vedyut/llm/tasks.py that parse a response.   *)
(*                                                                         *)
(* Representation.  A Python str is a sequence of one-character strings    *)
(* (a non-ASCII character is written "U+XXXX"), so that split, strip,      *)
(* lower and the substring test `in` are computed, not looked up.  An      *)
(* Optional value is None == <<>> or Some(x) == <<x>>.  A JSON value is a  *)
(* tagged record [t, v]; a JSON object is a sequence of <<key, value>>     *)
(* pairs in insertion order, as a Python dict is.                          *)
(***************************************************************************)
EXTENDS Integers, Sequences, FiniteSets, TLC

VARIABLES
    dir,               \* the data directory: does it exist, and its source files in glob order
    embed_fn,          \* the embed capability: text -> vector (LLMClient.embed, deterministic)
    chunks,            \* GrammarRAG.chunks
    chunk_embeddings,  \* GrammarRAG.chunk_embeddings: None or Some(matrix)
    index_file,        \* the persisted artifact: None (no file) or Some(JSON document)
    call,              \* the last call made on the object, with its arguments
    ret,               \* how the last call ended, what it returned and what it used
    pre                \* chunks, chunk_embeddings and index_file as they were when the last call began

vars == <<dir, embed_fn, chunks, chunk_embeddings, index_file, call, ret, pre>>

----------------------------------------------------------------------------
(* Bounds of the model *)

\* load_texts is not taken when it would grow the chunk set beyond this
MaxChunks == 4
\* the largest top_k a query is made with
MaxTopK == 3

----------------------------------------------------------------------------
(* Optional values *)

None == <<>>
Some(x) == <<x>>
\* Python truthiness of an Optional[str]: None and "" are falsy
Truthy(o) == o # None /\ o[1] # <<>>

Min(a, b) == IF a <= b THEN a ELSE b
Max(a, b) == IF a >= b THEN a ELSE b

----------------------------------------------------------------------------
(* Python str operations *)

S_sanskrit == <<"s", "a", "n", "s", "k", "r", "i", "t">>
S_english == <<"e", "n", "g", "l", "i", "s", "h">>
S_ashtadhyayi == <<"a", "s", "h", "t", "a", "d", "h", "y", "a", "y", "i">>
S_kashika == <<"k", "a", "s", "h", "i", "k", "a">>
S_sandhi == <<"s", "a", "n", "d", "h", "i">>
S_lakara == <<"l", "a", "k", "a", "r", "a">>
S_dhatu == <<"d", "h", "a", "t", "u">>
S_vibhakti == <<"v", "i", "b", "h", "a", "k", "t", "i">>
S_samasa == <<"s", "a", "m", "a", "s", "a">>
S_sutra == <<"s", "u", "t", "r", "a">>
S_explanation == <<"e", "x", "p", "l", "a", "n", "a", "t", "i", "o", "n">>
S_topic == <<"t", "o", "p", "i", "c">>
S_chunks == <<"c", "h", "u", "n", "k", "s">>
S_version == <<"v", "e", "r", "s", "i", "o", "n">>
S_id == <<"i", "d">>
S_text == <<"t", "e", "x", "t">>
S_source == <<"s", "o", "u", "r", "c", "e">>
S_sutra_number == <<"s", "u", "t", "r", "a", "_", "n", "u", "m", "b", "e", "r">>
S_language == <<"l", "a", "n", "g", "u", "a", "g", "e">>
S_embedding == <<"e", "m", "b", "e", "d", "d", "i", "n", "g">>

Digits == <<"0", "1", "2", "3", "4", "5", "6", "7", "8", "9">>
IsDigit(c) == \E d \in 1..10 : Digits[d] = c
Uppers == <<"A", "B", "C", "D", "E", "F", "G", "H", "I", "J", "K", "L", "M",
            "N", "O", "P", "Q", "R", "S", "T", "U", "V", "W", "X", "Y", "Z">>
Lowers == <<"a", "b", "c", "d", "e", "f", "g", "h", "i", "j", "k", "l", "m",
            "n", "o", "p", "q", "r", "s", "t", "u", "v", "w", "x", "y", "z">>
IsSpace(c) == c \in {" ", "\n", "\t", "\r"}
\* \w of the re module, on the characters this model uses
IsWordChar(c) ==
    \/ IsDigit(c)
    \/ c = "_"
    \/ \E k \in 1..26 : Uppers[k] = c \/ Lowers[k] = c

\* str(i) for i >= 0
RECURSIVE StrOfInt(_)
StrOfInt(i) ==
    IF i < 10 THEN <<Digits[i + 1]>>
    ELSE StrOfInt(i \div 10) \o <<Digits[(i % 10) + 1]>>

\* w in t
Contains(t, w) ==
    \E i \in 1..(Len(t) - Len(w) + 1) : SubSeq(t, i, i + Len(w) - 1) = w

\* t.lower()
LowerChar(c) ==
    IF \E k \in 1..26 : Uppers[k] = c
    THEN Lowers[CHOOSE k \in 1..26 : Uppers[k] = c]
    ELSE c
Lower(t) == [i \in 1..Len(t) |-> LowerChar(t[i])]

\* t.strip()
RECURSIVE LStrip(_)
LStrip(t) == IF t # <<>> /\ IsSpace(Head(t)) THEN LStrip(Tail(t)) ELSE t
RECURSIVE RStrip(_)
RStrip(t) ==
    IF t # <<>> /\ IsSpace(t[Len(t)]) THEN RStrip(SubSeq(t, 1, Len(t) - 1)) ELSE t
Strip(t) == RStrip(LStrip(t))

\* t.split(sep): the pieces between the non-overlapping occurrences of sep, left to right
RECURSIVE Split(_, _)
Split(t, sep) ==
    IF Contains(t, sep)
    THEN LET i == CHOOSE j \in 1..(Len(t) - Len(sep) + 1) :
                      /\ SubSeq(t, j, j + Len(sep) - 1) = sep
                      /\ \A h \in 1..(j - 1) : SubSeq(t, h, h + Len(sep) - 1) # sep
         IN  <<SubSeq(t, 1, i - 1)>> \o Split(SubSeq(t, i + Len(sep), Len(t)), sep)
    ELSE <<t>>

\* seq[:k], for any integer k
Take(seq, k) ==
    IF k >= 0 THEN SubSeq(seq, 1, Min(k, Len(seq)))
    ELSE SubSeq(seq, 1, Max(Len(seq) + k, 0))

----------------------------------------------------------------------------
(* JSON values *)

JNull == [t |-> "null", v |-> <<>>]
JStr(s) == [t |-> "str", v |-> s]
JNum(n) == [t |-> "num", v |-> n]
JArr(items) == [t |-> "arr", v |-> items]
JObj(pairs) == [t |-> "obj", v |-> pairs]

\* key in d, for a dict d
HasKey(d, key) == \E i \in 1..Len(d.v) : d.v[i][1] = key
\* d[key]
Item(d, key) == d.v[CHOOSE i \in 1..Len(d.v) : d.v[i][1] = key][2]
\* d.get(key, default)
Get(d, key, default) == IF HasKey(d, key) THEN Item(d, key) ELSE default

\* the Python value json.load gives for a JSON string or null: a str, or None
PyOptStr(j) == IF j.t = "null" THEN None ELSE Some(j.v)

----------------------------------------------------------------------------
(* GrammarChunk *)

GrammarChunk(id, text, source, sutra_number, topic, language, embedding) ==
    [id |-> id, text |-> text, source |-> source, sutra_number |-> sutra_number,
     topic |-> topic, language |-> language, embedding |-> embedding]

----------------------------------------------------------------------------
(* Topic and reference inference *)

\* the length of the run of digits of t that starts at position i
RECURSIVE DigitRun(_, _)
DigitRun(t, i) ==
    IF i <= Len(t) /\ IsDigit(t[i]) THEN 1 + DigitRun(t, i + 1) ELSE 0

\* \b(\d+\.\d+\.\d+)\b matches at position i of t; the result is the end of the
\* match, or 0.  \d+ is greedy and what follows it is never a digit, so each group
\* is a whole run of digits.
SutraMatchEnd(t, i) ==
    LET n1 == DigitRun(t, i)
        d1 == i + n1
        n2 == DigitRun(t, d1 + 1)
        d2 == d1 + 1 + n2
        n3 == DigitRun(t, d2 + 1)
        e  == d2 + n3
    IN  IF /\ (i = 1 \/ ~IsWordChar(t[i - 1]))
           /\ n1 >= 1 /\ d1 <= Len(t) /\ t[d1] = "."
           /\ n2 >= 1 /\ d2 <= Len(t) /\ t[d2] = "."
           /\ n3 >= 1
           /\ (e = Len(t) \/ ~IsWordChar(t[e + 1]))
        THEN e ELSE 0

SutraPrefixLen == 100

_extract_sutra_number(text) ==
    LET t == Take(text, SutraPrefixLen)
        Starts == {i \in 1..Len(t) : SutraMatchEnd(t, i) > 0}
    IN  IF Starts = {} THEN None
        ELSE LET i == CHOOSE s \in Starts : \A s2 \in Starts : s <= s2
             IN  Some(SubSeq(t, i, SutraMatchEnd(t, i)))

\* the keyword table, in the order of the if/elif chain
TopicTable == <<
    [tag |-> S_sandhi,
     words |-> {S_sandhi, <<"U+0938", "U+0928", "U+094D", "U+0927", "U+093F">>}],
    [tag |-> S_lakara,
     words |-> {S_lakara, <<"U+0932", "U+0915", "U+093E", "U+0930">>,
                <<"t", "e", "n", "s", "e">>,
                <<"U+0935", "U+0943", "U+0924", "U+094D", "U+0924", "U+093F">>}],
    [tag |-> S_dhatu,
     words |-> {S_dhatu, <<"U+0927", "U+093E", "U+0924", "U+0941">>,
                <<"v", "e", "r", "b">>, <<"r", "o", "o", "t">>}],
    [tag |-> S_vibhakti,
     words |-> {S_vibhakti,
                <<"U+0935", "U+093F", "U+092D", "U+0915", "U+094D", "U+0924", "U+093F">>,
                <<"c", "a", "s", "e">>}],
    [tag |-> S_samasa,
     words |-> {S_samasa, <<"U+0938", "U+092E", "U+093E", "U+0938">>,
                <<"c", "o", "m", "p", "o", "u", "n", "d">>}] >>

\* the tag of the last entry of the table that has a keyword in the text
_infer_topic_last_entry(text) ==
    LET text_lower == Lower(text)
        Hits == {k \in 1..Len(TopicTable) :
                    \E word \in TopicTable[k].words : Contains(text_lower, word)}
    IN  IF Hits = {} THEN None
        ELSE Some(TopicTable[CHOOSE k \in Hits : \A k2 \in Hits : k >= k2].tag)

_infer_topic(text) ==
    LET text_lower == Lower(text)
        Hits == {k \in 1..Len(TopicTable) :
                    \E word \in TopicTable[k].words : Contains(text_lower, word)}
    IN  IF Hits = {} THEN None
        ELSE Some(TopicTable[CHOOSE k \in Hits : \A k2 \in Hits : k <= k2].tag)

----------------------------------------------------------------------------
(* Text Loader *)

\* a source file: [stem |-> str, content |-> ...].  The content of a .txt file is
\* its text; the content of a .json file is [ok |-> does json.load parse it,
\* data |-> the JSON value it parses to].

\* the allow-list with one tag only
SanskritSourceTagsShort == {S_ashtadhyayi}

\* the tags of the names of the Sanskrit sources
SanskritSourceTags == {S_ashtadhyayi, S_kashika}

_load_text_file(file) ==
    LET source == file.stem
        language == IF \E x \in SanskritSourceTags : Contains(source, x)
                    THEN S_sanskrit ELSE S_english
        pieces == Split(file.content, <<"\n", "\n">>)
        kept == {k \in 1..Len(pieces) : Strip(pieces[k]) # <<>>}
        \* the k-th piece's index among the pieces that are kept, from 0
        rank(k) == Cardinality({h \in kept : h < k})
        paragraphs == [i \in 1..Cardinality(kept) |->
                          Strip(pieces[CHOOSE k \in kept : rank(k) = i - 1])]
    IN  [i \in 1..Len(paragraphs) |->
            GrammarChunk(source \o <<"_">> \o StrOfInt(i - 1), paragraphs[i], source,
                         _extract_sutra_number(paragraphs[i]),
                         _infer_topic(paragraphs[i]), language, None)]

\* what `for i, rule in enumerate(data)` visits: the items of a list, the keys of a dict
RulesOf(data) ==
    IF data.t = "arr" THEN data.v
    ELSE IF data.t = "obj" THEN [i \in 1..Len(data.v) |-> JStr(data.v[i][1])]
    ELSE <<>>

\* key in rule: a key of a dict, a substring of a str, an item of a list
InRule(rule, key) ==
    IF rule.t = "obj" THEN HasKey(rule, key)
    ELSE IF rule.t = "str" THEN Contains(rule.v, key)
    ELSE IF rule.t = "arr" THEN \E i \in 1..Len(rule.v) : rule.v[i] = JStr(key)
    ELSE FALSE

\* rule.get called on every rule, before the tests for its keys
RuleErrorOnGet(rule) ==
    IF rule.t = "obj" THEN ""
    ELSE IF rule.t \in {"num", "null"} THEN "TypeError"
    ELSE "AttributeError"

\* the exception one rule raises, "" when it raises none
RuleError(rule) ==
    IF rule.t = "obj" THEN ""
    ELSE IF rule.t \in {"num", "null"} THEN "TypeError"
    ELSE IF InRule(rule, S_sanskrit) \/ InRule(rule, S_english) THEN "AttributeError"
    ELSE ""

\* how an f-string formats a JSON string, number or null
Fmt(j) ==
    IF j.t = "str" THEN j.v
    ELSE IF j.t = "num" THEN StrOfInt(j.v)
    ELSE <<"N", "o", "n", "e">>

RuleText(rule, field) ==
    Fmt(Get(rule, S_sutra, JStr(<<>>))) \o <<":", " ">> \o Fmt(Item(rule, field))
        \o <<"\n">> \o Fmt(Get(rule, S_explanation, JStr(<<>>)))

\* the topic of a rule without a "topic" key inferred from its English text
RuleTopicInferred(rule) ==
    IF HasKey(rule, S_topic) THEN PyOptStr(Item(rule, S_topic))
    ELSE _infer_topic(Fmt(Get(rule, S_english, JStr(<<>>))))

\* rule.get("sutra") and rule.get("topic")
RuleSutra(rule) == PyOptStr(Get(rule, S_sutra, JNull))
RuleTopic(rule) == PyOptStr(Get(rule, S_topic, JNull))

\* the chunks of the rule at index i (from 0) of the file with this stem
RuleChunks(stem, i, rule) ==
    (IF InRule(rule, S_sanskrit)
     THEN <<GrammarChunk(stem \o <<"_">> \o StrOfInt(i) \o <<"_", "s", "a">>,
                         RuleText(rule, S_sanskrit), stem,
                         RuleSutra(rule), RuleTopic(rule), S_sanskrit, None)>>
     ELSE <<>>)
    \o
    (IF InRule(rule, S_english)
     THEN <<GrammarChunk(stem \o <<"_">> \o StrOfInt(i) \o <<"_", "e", "n">>,
                         RuleText(rule, S_english), stem,
                         RuleSutra(rule), RuleTopic(rule), S_english, None)>>
     ELSE <<>>)

\* the rules from index i on: the chunks appended, and the exception that ended the loop
RECURSIVE LoadRules(_, _, _)
LoadRules(stem, rules, i) ==
    IF i > Len(rules) THEN [chunks |-> <<>>, error |-> ""]
    ELSE IF RuleError(rules[i]) # "" THEN [chunks |-> <<>>, error |-> RuleError(rules[i])]
    ELSE LET rest == LoadRules(stem, rules, i + 1)
         IN  [chunks |-> RuleChunks(stem, i - 1, rules[i]) \o rest.chunks,
              error |-> rest.error]

_load_json_file(file) ==
    IF ~file.content.ok THEN [chunks |-> <<>>, error |-> "JSONDecodeError"]
    ELSE IF file.content.data.t \in {"num", "null"}
         THEN [chunks |-> <<>>, error |-> "TypeError"]
    ELSE LoadRules(file.stem, RulesOf(file.content.data), 1)

\* the files of a loop, in order: the chunks appended, and the exception that ended it
RECURSIVE LoadJsonFiles(_)
LoadJsonFiles(files) ==
    IF files = <<>> THEN [chunks |-> <<>>, error |-> ""]
    ELSE LET first == _load_json_file(Head(files))
         IN  IF first.error # "" THEN first
             ELSE LET rest == LoadJsonFiles(Tail(files))
                  IN  [chunks |-> first.chunks \o rest.chunks, error |-> rest.error]

RECURSIVE LoadTextFiles(_)
LoadTextFiles(files) ==
    IF files = <<>> THEN <<>>
    ELSE _load_text_file(Head(files)) \o LoadTextFiles(Tail(files))

\* seq with x inserted after its first pos elements
InsertAt(seq, pos, x) == SubSeq(seq, 1, pos) \o <<x>> \o SubSeq(seq, pos + 1, Len(seq))

S_grammar_index == <<"g", "r", "a", "m", "m", "a", "r", "_", "i", "n", "d", "e", "x">>

\* the missing directory reported by raising
MissingDirRaises == [chunks |-> <<>>, error |-> "FileNotFoundError"]

\* what load_texts does when the data directory does not exist: two warnings are
\* printed and it returns
MissingDir == [chunks |-> <<>>, error |-> ""]

\* load_texts on directory d, the artifact (when there is one) being the pos-th file
\* that glob("*.json") yields: the chunks appended and the exception raised
load_texts(d, artifact, pos) ==
    IF ~d.exists THEN MissingDir
    ELSE LET jsons == IF artifact = None THEN d.json
                      ELSE InsertAt(d.json, pos,
                                    [stem |-> S_grammar_index,
                                     content |-> [ok |-> TRUE, data |-> artifact[1]]])
             fromJson == LoadJsonFiles(jsons)
         IN  [chunks |-> LoadTextFiles(d.txt) \o fromJson.chunks,
              error |-> fromJson.error]

----------------------------------------------------------------------------
(* Embed capability *)

\* LLMClient.embed: one vector per text, in order
embed(texts) == [i \in 1..Len(texts) |-> embed_fn[texts[i]]]

\* LLMClient.embed_single
embed_single(text) == embed(<<text>>)[1]

----------------------------------------------------------------------------
(* Embedding Index *)

\* the state of a GrammarRAG object and of its artifact, as the operations read it
Self == [chunks |-> chunks, chunk_embeddings |-> chunk_embeddings,
         index_file |-> index_file, data_dir_exists |-> dir.exists]

\* the number of texts sent to the embed capability in one call of build_index;
\* 100 in the source, scaled down so that the chunk sets of the model are smaller
\* than a batch (2 chunks), fill one (3) and span two (4)
batch_size == 3

\* the batch loop with batches of the given size: the batches from index i (from 0)
\* on, embedded and concatenated
RECURSIVE EmbedBatchesOf(_, _, _)
EmbedBatchesOf(texts, i, size) ==
    IF i >= Len(texts) THEN <<>>
    ELSE embed(SubSeq(texts, i + 1, Min(i + size, Len(texts))))
             \o EmbedBatchesOf(texts, i + size, size)

\* the batch loop that steps over the text after each batch
EmbedBatchesSkipping(texts, i) ==
    LET RECURSIVE from(_)
        from(k) == IF k >= Len(texts) THEN <<>>
                   ELSE embed(SubSeq(texts, k + 1, Min(k + batch_size, Len(texts))))
                            \o from(k + batch_size + 1)
    IN  from(i)

EmbedBatches(texts, i) == EmbedBatchesOf(texts, i, batch_size)

\* range(0, n, batch_size) has this many elements
NumBatches(n) == (n + batch_size - 1) \div batch_size

\* asdict without the language field
asdict_no_language(chunk) ==
    [t |-> "obj",
     v |-> << <<S_id, [t |-> "str", v |-> chunk.id]>>,
              <<S_text, [t |-> "str", v |-> chunk.text]>>,
              <<S_source, [t |-> "str", v |-> chunk.source]>>,
              <<S_sutra_number, IF chunk.sutra_number = None
                                THEN [t |-> "null", v |-> <<>>]
                                ELSE [t |-> "str", v |-> chunk.sutra_number[1]]>>,
              <<S_topic, IF chunk.topic = None
                         THEN [t |-> "null", v |-> <<>>]
                         ELSE [t |-> "str", v |-> chunk.topic[1]]>>,
              <<S_embedding,
                IF chunk.embedding = None THEN [t |-> "null", v |-> <<>>]
                ELSE [t |-> "arr",
                      v |-> [i \in 1..Len(chunk.embedding[1]) |->
                                [t |-> "num", v |-> chunk.embedding[1][i]]]]>> >>]

\* dataclasses.asdict, as json.dump writes it: None as null, a str as a string, a
\* list of numbers as an array.  Writing the document to the file and parsing the
\* file again gives the same JSON value (strings, null, numbers and arrays of
\* numbers are written exactly), so the artifact is kept as the JSON value.
JOptStr(o) == IF o = None THEN JNull ELSE JStr(o[1])
JOptVec(o) == IF o = None THEN JNull ELSE JArr([i \in 1..Len(o[1]) |-> JNum(o[1][i])])
asdict(chunk) ==
    JObj(<< <<S_id, JStr(chunk.id)>>,
            <<S_text, JStr(chunk.text)>>,
            <<S_source, JStr(chunk.source)>>,
            <<S_sutra_number, JOptStr(chunk.sutra_number)>>,
            <<S_topic, JOptStr(chunk.topic)>>,
            <<S_language, JStr(chunk.language)>>,
            <<S_embedding, JOptVec(chunk.embedding)>> >>)

\* the document _save_index writes for the chunk list cs
_save_index(cs) ==
    JObj(<< <<S_chunks, JArr([i \in 1..Len(cs) |-> asdict(cs[i])])>>,
            <<S_version, JStr(<<"1", ".", "0">>)>> >>)

\* json.load's value for an array of numbers or null: a list, or None
PyOptVec(j) == IF j.t = "null" THEN None ELSE Some([i \in 1..Len(j.v) |-> j.v[i].v])

ChunkFields == {S_id, S_text, S_source, S_sutra_number, S_topic, S_language, S_embedding}

\* GrammarChunk(**d) raises TypeError for an unknown key or a missing required one
ChunkKwargsOk(d) ==
    /\ \A i \in 1..Len(d.v) : d.v[i][1] \in ChunkFields
    /\ \A key \in {S_id, S_text, S_source} : HasKey(d, key)

\* GrammarChunk(**d): the keys given, the dataclass defaults for the others
ChunkOfDict(d) ==
    GrammarChunk(Item(d, S_id).v, Item(d, S_text).v, Item(d, S_source).v,
                 PyOptStr(Get(d, S_sutra_number, JNull)),
                 PyOptStr(Get(d, S_topic, JNull)),
                 Get(d, S_language, JStr(S_sanskrit)).v,
                 PyOptVec(Get(d, S_embedding, JNull)))

\* np.array([chunk.embedding for chunk in cs]): one row per chunk
MatrixOf(cs) ==
    [i \in 1..Len(cs) |-> IF cs[i].embedding = None THEN None ELSE cs[i].embedding[1]]

\* _load_index on the document doc: the new chunks and chunk_embeddings, or the exception
_load_index(doc) ==
    IF ~HasKey(doc, S_chunks)
    THEN [chunks |-> <<>>, chunk_embeddings |-> None, error |-> "KeyError"]
    ELSE LET ds == Item(doc, S_chunks).v
         IN  IF \E i \in 1..Len(ds) : ~ChunkKwargsOk(ds[i])
             THEN [chunks |-> <<>>, chunk_embeddings |-> None, error |-> "TypeError"]
             ELSE LET cs == [i \in 1..Len(ds) |-> ChunkOfDict(ds[i])]
                  IN  [chunks |-> cs, chunk_embeddings |-> Some(MatrixOf(cs)),
                       error |-> ""]

\* what a call leaves behind: the object and the artifact, how the call ended ("ok"
\* or the exception raised), the list top_indices of (index, score) pairs that a
\* query's result is made from, the number of calls of the embed capability, and
\* whether _save_index wrote the artifact
Outcome(cs, emb, file, outcome, top_indices, embed_calls, saved) ==
    [chunks |-> cs, chunk_embeddings |-> emb, index_file |-> file,
     outcome |-> outcome, top_indices |-> top_indices, embed_calls |-> embed_calls,
     saved |-> saved]

\* an exception leaves the call after the artifact was written from the chunk set
RaisedAfterSave(self, exception, embed_calls) ==
    [chunks |-> self.chunks, chunk_embeddings |-> self.chunk_embeddings,
     index_file |-> <<[t |-> "obj",
                       v |-> << <<S_chunks,
                                  [t |-> "arr",
                                   v |-> [i \in 1..Len(self.chunks) |-> asdict(self.chunks[i])]]>>,
                                <<S_version, [t |-> "str", v |-> <<"1", ".", "0">>]>> >>]>>,
     outcome |-> exception, top_indices |-> <<>>, embed_calls |-> embed_calls,
     saved |-> TRUE]

\* an exception leaves the call: the object and the artifact stay as they are at the
\* raise, which in build_index and in query is as they were when the call began
Raised(self, exception, embed_calls) ==
    Outcome(self.chunks, self.chunk_embeddings, self.index_file, exception, <<>>,
            embed_calls, FALSE)

\* the "No chunks to index" return left out
NoChunksNever(self) == FALSE

\* the cache is used only by an object that has loaded nothing
CacheHitWhenEmpty(self, force_rebuild) ==
    ~force_rebuild /\ self.index_file # None /\ self.chunks = <<>>

\* the cache is used whenever the artifact exists, whatever force_rebuild says
CacheHitForced(self, force_rebuild) == self.index_file # None

\* the test of the cache-hit return of build_index
CacheHit(self, force_rebuild) == ~force_rebuild /\ self.index_file # None

\* the test of the "No chunks to index" return of build_index
NoChunks(self) == self.chunks = <<>>

\* build_index(force_rebuild) on the object self; the embed capability raises on
\* its fail_at-th call (0: on none)
build_index(self, force_rebuild, fail_at) ==
    IF CacheHit(self, force_rebuild)
    THEN LET loaded == _load_index(self.index_file[1])
         IN  IF loaded.error # ""
             THEN Raised(self, loaded.error, 0)
             ELSE Outcome(loaded.chunks, loaded.chunk_embeddings, self.index_file,
                          "ok", <<>>, 0, FALSE)
    ELSE IF NoChunks(self)
    THEN Outcome(self.chunks, self.chunk_embeddings, self.index_file, "ok", <<>>, 0, FALSE)
    ELSE IF fail_at # 0
    THEN Raised(self, "EmbedError", fail_at)
    ELSE LET texts == [i \in 1..Len(self.chunks) |-> self.chunks[i].text]
             all_embeddings == EmbedBatches(texts, 0)
             \* zip stops at the shorter of the two lists
             cs == [i \in 1..Len(self.chunks) |->
                       IF i <= Len(all_embeddings)
                       THEN [self.chunks[i] EXCEPT !.embedding = Some(all_embeddings[i])]
                       ELSE self.chunks[i]]
         IN  Outcome(cs, Some(all_embeddings), Some(_save_index(cs)), "ok", <<>>,
                     NumBatches(Len(texts)), TRUE)

----------------------------------------------------------------------------
(* Retrieval Engine *)

RECURSIVE Dot(_, _)
Dot(a, b) ==
    IF a = <<>> \/ b = <<>> THEN 0 ELSE Head(a) * Head(b) + Dot(Tail(a), Tail(b))

Abs(x) == IF x < 0 THEN -x ELSE x

RECURSIVE GCD(_, _)
GCD(a, b) == IF b = 0 THEN a ELSE GCD(b, a % b)

\* The similarity dot(a, q) / (norm(a) * norm(q)) of a row a and the query vector q.
\* The model keeps the exact value sign(d) * d^2 / (|a|^2 * |q|^2), d == dot(a, q),
\* as a fraction <<numerator, denominator>> in lowest terms: a strictly increasing
\* function of the cosine, so two scores are equal, or ordered, exactly as the two
\* cosines are.  The embed capability of the model returns no zero vector.
Similarity(a, q) ==
    LET d == Dot(a, q)
        num == IF d < 0 THEN -(d * d) ELSE d * d
        den == Dot(a, a) * Dot(q, q)
        g == GCD(Abs(num), den)
    IN  <<num \div g, den \div g>>

ScoreLess(s, t) == s[1] * t[2] < t[1] * s[2]

\* the filter loop with the language test left out
filtered_indices_topic_only(cs, topic, language) ==
    {i \in 1..Len(cs) : ~(Truthy(topic) /\ cs[i].topic # topic)}

\* the filter loop: the indices (from 1) of the chunks that pass the filters given
filtered_indices(cs, topic, language) ==
    {i \in 1..Len(cs) :
        /\ ~(Truthy(topic) /\ cs[i].topic # topic)
        /\ ~(Truthy(language) /\ Some(cs[i].language) # language)}

\* the elements of the set S of indices as a list, in increasing order
RECURSIVE Ascending(_)
Ascending(S) ==
    IF S = {} THEN <<>>
    ELSE LET m == CHOOSE x \in S : \A y \in S : x <= y
         IN  <<m>> \o Ascending(S \ {m})

\* pair inserted before the elements of equal score: a sort that is not stable
RECURSIVE InsertDescUnstable(_, _)
InsertDescUnstable(sorted, pair) ==
    IF sorted = <<>> THEN <<pair>>
    ELSE IF ~ScoreLess(pair[2], Head(sorted)[2]) THEN <<pair>> \o sorted
    ELSE <<Head(sorted)>> \o InsertDescUnstable(Tail(sorted), pair)

\* pair inserted into a list sorted by descending score, after every element whose
\* score is not less than its own
RECURSIVE InsertDesc(_, _)
InsertDesc(sorted, pair) ==
    IF sorted = <<>> THEN <<pair>>
    ELSE IF ScoreLess(Head(sorted)[2], pair[2]) THEN <<pair>> \o sorted
    ELSE <<Head(sorted)>> \o InsertDesc(Tail(sorted), pair)

\* sorted(pairs, key=lambda x: x[1]) without reverse=True: ascending
RECURSIVE SortedAsc(_)
SortedAsc(pairs) ==
    IF pairs = <<>> THEN <<>>
    ELSE LET last == pairs[Len(pairs)]
             before == SortedAsc(SubSeq(pairs, 1, Len(pairs) - 1))
             k == Cardinality({n \in 1..Len(before) : ~ScoreLess(last[2], before[n][2])})
         IN  SubSeq(before, 1, k) \o <<last>> \o SubSeq(before, k + 1, Len(before))

\* sorted(pairs, key=lambda x: x[1], reverse=True): a stable sort, elements of equal
\* score keep the order they have in pairs
RECURSIVE SortedDesc(_)
SortedDesc(pairs) ==
    IF pairs = <<>> THEN <<>>
    ELSE InsertDesc(SortedDesc(SubSeq(pairs, 1, Len(pairs) - 1)), pairs[Len(pairs)])

\* np.argsort(similarities): the orders of the indices in S that an ascending sort
\* may give.  The default kind of argsort is not stable: indices of equal score
\* come in an order that depends on the numpy build and on the array length.
RECURSIVE Argsorts(_, _)
Argsorts(S, similarities) ==
    IF S = {} THEN {<<>>}
    ELSE UNION {{<<i>> \o rest : rest \in Argsorts(S \ {i}, similarities)} :
                  i \in {x \in S : \A y \in S :
                            ~ScoreLess(similarities[y], similarities[x])}}

\* seq[::-1]
Reverse(seq) == [i \in 1..Len(seq) |-> seq[Len(seq) + 1 - i]]

\* results: [(self.chunks[i], float(score)) for i, score in top_indices]
Results(cs, top_indices) ==
    [n \in 1..Len(top_indices) |-> <<cs[top_indices[n][1]], top_indices[n][2]>>]

\* query(query_text, top_k, topic, language) on the object self: the set of the
\* outcomes the call can have; embed_ok: the embed capability answers.  The list
\* returned is Results(self.chunks, top_indices): the chunk objects at the indices of
\* top_indices (from 1 in the model), with their scores.
query(self, query_text, top_k, topic, language, embed_ok) ==
    IF self.chunk_embeddings = None
    THEN {Raised(self, "ValueError: Index not built", 0)}
    ELSE IF ~embed_ok
    THEN {Raised(self, "EmbedError", 1)}
    ELSE LET matrix == self.chunk_embeddings[1]
             query_vec == embed_single(query_text)
             similarities == [i \in 1..Len(matrix) |-> Similarity(matrix[i], query_vec)]
             filtered == filtered_indices(self.chunks, topic, language)
         IN  IF filtered # {}
             THEN IF \E i \in filtered : i > Len(similarities)
                  THEN {Raised(self, "IndexError", 1)}
                  ELSE LET order == Ascending(filtered)
                           filtered_sims == [n \in 1..Len(order) |->
                                                <<order[n], similarities[order[n]]>>]
                           top_indices == Take(SortedDesc(filtered_sims), top_k)
                       IN  {Outcome(self.chunks, self.chunk_embeddings, self.index_file,
                                    "ok", top_indices, 1, FALSE)}
             ELSE {Outcome(self.chunks, self.chunk_embeddings, self.index_file, "ok",
                           LET top == Take(Reverse(order), top_k)
                           IN  [n \in 1..Len(top) |-> <<top[n], similarities[top[n]]>>],
                           1, FALSE) :
                      order \in Argsorts(1..Len(similarities), similarities)}

----------------------------------------------------------------------------
(* The data directories and the inputs of the model *)

D_missing == [exists |-> FALSE, txt |-> <<>>, json |-> <<>>]

\* kashika.txt: a paragraph and a blank one; kale.txt: one paragraph
D_txt ==
    [exists |-> TRUE,
     txt |-> << [stem |-> S_kashika,
                 content |-> <<"S", "a", "n", "d", "h", "i", " ", "1", ".", "1", ".", "1",
                               "\n", "\n", " ", "\n">>],
                [stem |-> <<"k", "a", "l", "e">>,
                 content |-> <<"N", "o", "u", "n", "s">>] >>,
     json |-> <<>>]

\* rules.json: a record with both language fields, a record with neither
D_json ==
    [exists |-> TRUE,
     txt |-> <<>>,
     json |-> << [stem |-> <<"r", "u", "l", "e", "s">>,
                  content |->
                      [ok |-> TRUE,
                       data |-> JArr(<<
                           JObj(<< <<S_sutra, JStr(<<"1", ".", "1", ".", "1">>)>>,
                                   <<S_sanskrit, JStr(<<"U+0935", "U+0943">>)>>,
                                   <<S_english, JStr(<<"T", "e", "n", "s", "e">>)>>,
                                   <<S_topic, JStr(S_sandhi)>> >>),
                           JObj(<< <<S_topic, JStr(S_dhatu)>> >>) >>)]] >>]

S_kale_grammar == <<"k", "a", "l", "e", "_", "g", "r", "a", "m", "m", "a", "r">>

\* ashtadhyayi.txt: two paragraphs, with an empty one between them and white space
\* around the second; kale_grammar.txt: one paragraph
D_ashtadhyayi ==
    [exists |-> TRUE,
     txt |-> << [stem |-> S_ashtadhyayi,
                 content |-> <<"V", "e", "r", "b", " ", "t", "e", "n", "s", "e">> \o <<"\n", "\n", "\n", "\n", " ">>
                             \o <<"C", "o", "m", "p", "o", "u", "n", "d", " ", "C", "A", "S", "E">> \o <<" ", "\n">>],
                [stem |-> S_kale_grammar,
                 content |-> <<"U+0927", "U+093E", "U+0924", "U+0941", " ">>
                             \o <<"S", "a", "m", "a", "s", "a">>] >>,
     json |-> <<>>]

\* panini_intro.txt: one paragraph; and three .json files that glob yields in this
\* order: a_rules.json, a record with an English field only; bad.json, not JSON;
\* custom_rules.json, a record with a Sanskrit field only
D_malformed ==
    [exists |-> TRUE,
     txt |-> << [stem |-> <<"p", "a", "n", "i", "n", "i", "_", "i", "n", "t", "r", "o">>,
                 content |-> <<"T", "e", "n", "s", "e">>] >>,
     json |-> << [stem |-> <<"a", "_", "r", "u", "l", "e", "s">>,
                  content |->
                      [ok |-> TRUE,
                       data |-> JArr(<<
                           JObj(<< <<S_english, JStr(<<"V", "e", "r", "b", " ", "2", ".", "3", ".", "4">>)>> >>) >>)]],
                 [stem |-> <<"b", "a", "d">>,
                  content |-> [ok |-> FALSE, data |-> JNull]],
                 [stem |-> <<"c", "u", "s", "t", "o", "m", "_", "r", "u", "l", "e", "s">>,
                  content |->
                      [ok |-> TRUE,
                       data |-> JArr(<<
                           JObj(<< <<S_sanskrit, JStr(<<"U+0905">>)>> >>) >>)]] >>]

Directories == {D_missing, D_txt, D_json, D_ashtadhyayi, D_malformed}

\* the texts of the chunks that load_texts makes of directory d
TextsOf(d) ==
    LET cs == load_texts(d, None, 0).chunks IN {cs[i].text : i \in 1..Len(cs)}

QueryTexts == {<<"q">>}

\* the vectors the embed capability of the model answers with
Vectors == {<<1, 0>>, <<-1, 1>>}

\* the vectors it answers a query text with: the scores that the vectors of the
\* model have with one of them are those they have with the other, exchanged
QueryVectors == {<<1, 0>>}

TopicFilters == {None, Some(S_sandhi), Some(S_samasa)}
LanguageFilters == {None, Some(S_sanskrit), Some(S_english)}

----------------------------------------------------------------------------
(* The state machine *)

NoArgs == [query_text |-> <<>>, top_k |-> 0, topic |-> None, language |-> None,
           force_rebuild |-> FALSE, fail_at |-> 0]

Call(op, args) == [op |-> op, args |-> args]

Ret(out) == [outcome |-> out.outcome, top_indices |-> out.top_indices,
             embed_calls |-> out.embed_calls, saved |-> out.saved]

NoResult == [outcome |-> "ok", top_indices |-> <<>>, embed_calls |-> 0, saved |-> FALSE]

\* a GrammarRAG is constructed on a data directory that holds no artifact yet
Init ==
    /\ dir \in Directories
    /\ embed_fn \in {f \in [TextsOf(dir) \cup QueryTexts -> Vectors] :
                       \A query_text \in QueryTexts : f[query_text] \in QueryVectors}
    /\ index_file = None
    /\ chunks = <<>>
    /\ chunk_embeddings = None
    /\ call = Call("__init__", NoArgs)
    /\ ret = NoResult
    /\ pre = Self

\* __init__ again: a new object on the same data directory; what is on disk stays
Construct ==
    /\ call.op # "__init__"
    /\ pre' = Self
    /\ chunks' = <<>>
    /\ chunk_embeddings' = None
    /\ call' = Call("__init__", NoArgs)
    /\ ret' = NoResult
    /\ UNCHANGED <<dir, embed_fn, index_file>>

\* the new chunks appended unless a chunk with their id is there already
AppendNewIds(cs, new) ==
    cs \o SelectSeq(new, LAMBDA c : \A i \in 1..Len(cs) : cs[i].id # c.id)

\* self.chunks.append(chunk) for each of the chunks read, in order
AppendChunks(cs, new) == cs \o new

LoadTexts ==
    \E pos \in 0..Len(dir.json) :
        LET loaded == load_texts(dir, index_file, pos)
        IN  /\ Len(chunks) + Len(loaded.chunks) <= MaxChunks
            /\ pre' = Self
            /\ call' = Call("load_texts", NoArgs)
            /\ chunks' = AppendChunks(chunks, loaded.chunks)
            /\ ret' = [NoResult EXCEPT
                          !.outcome = IF loaded.error = "" THEN "ok" ELSE loaded.error]
            /\ UNCHANGED <<dir, embed_fn, chunk_embeddings, index_file>>

\* build_index; the embed capability answers every call of it (fail_at = 0) or
\* raises on one of the calls that the batch loop makes
BuildIndex ==
    \E force_rebuild \in BOOLEAN :
    \E fail_at \in IF CacheHit(Self, force_rebuild) \/ NoChunks(Self) THEN {0}
                   ELSE 0..NumBatches(Len(chunks)) :
        LET out == build_index(Self, force_rebuild, fail_at)
        IN  /\ pre' = Self
            /\ call' = Call("build_index", [NoArgs EXCEPT !.force_rebuild = force_rebuild,
                                                          !.fail_at = fail_at])
            /\ chunks' = out.chunks
            /\ chunk_embeddings' = out.chunk_embeddings
            /\ index_file' = out.index_file
            \* _save_index makes the directory when it is missing
            /\ dir' = IF out.saved THEN [dir EXCEPT !.exists = TRUE] ELSE dir
            /\ ret' = Ret(out)
            /\ UNCHANGED embed_fn

Query ==
    \E query_text \in QueryTexts, top_k \in 0..MaxTopK, topic \in TopicFilters,
       language \in LanguageFilters, embed_ok \in BOOLEAN :
        \E out \in query(Self, query_text, top_k, topic, language, embed_ok) :
            /\ pre' = Self
            /\ call' = Call("query", [query_text |-> query_text, top_k |-> top_k,
                                      topic |-> topic, language |-> language,
                                      force_rebuild |-> FALSE, fail_at |-> 0])
            /\ ret' = Ret(out)
            /\ UNCHANGED <<dir, embed_fn, chunks, chunk_embeddings, index_file>>

Next == Construct \/ LoadTexts \/ BuildIndex \/ Query

Spec == Init /\ [][Next]_vars

----------------------------------------------------------------------------
(* A data directory that holds an artifact when the object is constructed *)

\* the version tags of the artifacts found: the tag _save_index writes, another
\* one, and none
VersionTags == {Some(<<"1", ".", "0">>), Some(<<"2", ".", "0">>), None}

\* the artifact of the chunk list cs as a release of the program that tags its
\* artifacts with this version writes it
ArtifactOf(cs, version) ==
    JObj(<< <<S_chunks, JArr([i \in 1..Len(cs) |-> asdict(cs[i])])>> >>
         \o IF version = None THEN <<>> ELSE << <<S_version, JStr(version[1])>> >>)

\* the chunks of directory d with their embeddings attached
EmbeddedChunksOf(d) ==
    LET cs == load_texts(d, None, 0).chunks
    IN  [i \in 1..Len(cs) |-> [cs[i] EXCEPT !.embedding = Some(embed_fn[cs[i].text])]]

InitArtifact ==
    /\ dir \in {D_txt, D_json}
    /\ embed_fn \in {f \in [TextsOf(dir) \cup QueryTexts -> Vectors] :
                       \A query_text \in QueryTexts : f[query_text] \in QueryVectors}
    /\ index_file \in {Some(ArtifactOf(EmbeddedChunksOf(dir), version)) :
                           version \in VersionTags}
    /\ chunks = <<>>
    /\ chunk_embeddings = None
    /\ call = Call("__init__", NoArgs)
    /\ ret = NoResult
    /\ pre = Self

SpecArtifact == InitArtifact /\ [][Next]_vars

----------------------------------------------------------------------------
(* Properties of the retrieval engine *)

\* the last call was a query, and it returned a list
QueryReturned == call.op = "query" /\ ret.outcome = "ok"

\* the list the last query returned
Returned == Results(chunks, ret.top_indices)

\* chunk c passes the filters that were given
PassesFilters(c, topic, language) ==
    /\ topic # None => c.topic = topic
    /\ language # None => Some(c.language) = language

\* the indices of the chunks that a query with these filters ranks: those that pass
\* the filters, or all of them when none does
Candidates(topic, language) ==
    LET passing == {i \in 1..Len(chunks) : PassesFilters(chunks[i], topic, language)}
    IN  IF passing = {} THEN 1..Len(chunks) ELSE passing

\* C1: a query with a topic filter that no chunk matches returns the same ordered
\* list of (chunk, score) pairs as the same query without the filter
C1_FilterFallback ==
    ( /\ QueryReturned
      /\ call.args.topic # None
      /\ call.args.language = None
      /\ \A i \in 1..Len(chunks) : chunks[i].topic # call.args.topic )
    => \A out \in query(Self, call.args.query_text, call.args.top_k, None, None, TRUE) :
          /\ out.outcome = "ok"
          /\ Results(chunks, out.top_indices) = Returned

\* C2: when some chunk passes every filter given, every chunk returned passes them
C2_FilterCorrectness ==
    ( /\ QueryReturned
      /\ \E i \in 1..Len(chunks) :
            PassesFilters(chunks[i], call.args.topic, call.args.language) )
    => \A n \in 1..Len(Returned) :
          PassesFilters(Returned[n][1], call.args.topic, call.args.language)

\* a query with both filters given returned some, but not all, of the chunks
C2_Witness ==
    /\ QueryReturned
    /\ call.args.topic # None
    /\ call.args.language # None
    /\ \E i \in 1..Len(chunks) :
          PassesFilters(chunks[i], call.args.topic, call.args.language)
    /\ \E i \in 1..Len(chunks) : chunks[i].topic = call.args.topic
                                    /\ Some(chunks[i].language) # call.args.language
    /\ Len(Returned) >= 1

\* the number of chunks that a query with these filters ranks
candidate_count(topic, language) == Cardinality(Candidates(topic, language))

\* C3: on a built index a query returns min(top_k, candidate_count) results,
\* without error
C3_TopKBound ==
    ( /\ call.op = "query"
      /\ pre.chunk_embeddings # None
      /\ ret.outcome # "EmbedError" )
    => /\ ret.outcome = "ok"
       /\ Len(Returned) =
              Min(call.args.top_k, candidate_count(call.args.topic, call.args.language))

\* the same, on an index whose matrix has one row for each chunk
C3_TopKBoundRowPerChunk ==
    ( /\ call.op = "query"
      /\ pre.chunk_embeddings # None
      /\ Len(pre.chunk_embeddings[1]) = Len(chunks)
      /\ ret.outcome # "EmbedError" )
    => /\ ret.outcome = "ok"
       /\ Len(Returned) =
              Min(call.args.top_k, candidate_count(call.args.topic, call.args.language))

\* the score of the chunk at index i for the last query (the chunk has a row)
ScoreOf(i) == Similarity(chunk_embeddings[1][i], embed_single(call.args.query_text))
Scored(i) == i <= Len(chunk_embeddings[1])

\* C4: the list returned is in non-increasing order of score, and no candidate that
\* was left out has a strictly higher score than a chunk that was returned
C4_RankingOrder ==
    QueryReturned =>
        LET top == ret.top_indices
            returned == {top[n][1] : n \in 1..Len(top)}
        IN  /\ \A n \in 1..Len(top) : Scored(top[n][1]) /\ top[n][2] = ScoreOf(top[n][1])
            /\ \A m, n \in 1..Len(top) : m < n => ~ScoreLess(top[m][2], top[n][2])
            /\ \A i \in Candidates(call.args.topic, call.args.language) \ returned :
                  \A j \in returned : Scored(i) => ~ScoreLess(ScoreOf(j), ScoreOf(i))

\* a query left out a candidate of lower score, on the filtered path; and one did on
\* the fallback path
C4_Witness ==
    /\ QueryReturned
    /\ Len(ret.top_indices) >= 1
    /\ call.args.topic # None
    /\ \E i \in Candidates(call.args.topic, call.args.language) :
          /\ Scored(i)
          /\ \A n \in 1..Len(ret.top_indices) :
                ScoreLess(ScoreOf(i), ret.top_indices[n][2])

\* C5: when some chunk passes the filters, chunks of equal score are returned in
\* the order they have in the chunk list, and of the chunks of one score those that
\* top_k leaves in are the earlier ones
C5_TieBreak ==
    ( /\ QueryReturned
      /\ \E i \in 1..Len(chunks) :
            PassesFilters(chunks[i], call.args.topic, call.args.language) )
    => LET top == ret.top_indices
           returned == {top[n][1] : n \in 1..Len(top)}
       IN  /\ \A m, n \in 1..Len(top) :
                 (m < n /\ top[m][2] = top[n][2]) => top[m][1] < top[n][1]
           /\ \A i \in Candidates(call.args.topic, call.args.language) \ returned :
                 \A j \in returned : ScoreOf(i) = ScoreOf(j) => j < i

\* top_k cut a group of chunks of equal score that pass the filter
C5_Witness ==
    /\ QueryReturned
    /\ \E i \in 1..Len(chunks) :
          PassesFilters(chunks[i], call.args.topic, call.args.language)
    /\ Len(ret.top_indices) >= 1
    /\ \E i \in Candidates(call.args.topic, call.args.language) :
          /\ \A n \in 1..Len(ret.top_indices) : ret.top_indices[n][1] # i
          /\ ScoreOf(i) = ret.top_indices[Len(ret.top_indices)][2]

----------------------------------------------------------------------------
(* Properties of the index *)

NotBuiltError == "ValueError: Index not built"

\* C6: while no build and no load of the artifact has attached embeddings (a new
\* object, after load_texts only, after build_index on an empty chunk set with no
\* artifact), query fails with "Index not built" before it calls the embed
\* capability, and leaves the chunk set and the artifact as they were
C6_NotReady ==
    /\ call.op = "__init__" => chunk_embeddings = None
    /\ (call.op = "load_texts" /\ pre.chunk_embeddings = None) => chunk_embeddings = None
    /\ ( /\ call.op = "build_index"
         /\ pre.chunk_embeddings = None
         /\ pre.chunks = <<>>
         /\ pre.index_file = None )
       => chunk_embeddings = None /\ index_file = None
    /\ (call.op = "query" /\ pre.chunk_embeddings = None)
       => /\ ret.outcome = NotBuiltError
          /\ ret.embed_calls = 0
          /\ chunks = pre.chunks
          /\ chunk_embeddings = None
          /\ index_file = pre.index_file

\* a query was refused on an object that had loaded chunks and built nothing
C6_Witness ==
    /\ call.op = "query"
    /\ pre.chunk_embeddings = None
    /\ pre.chunks # <<>>
    /\ ret.outcome = NotBuiltError

\* C7: whenever the index is built (chunk_embeddings is set) every chunk of the
\* chunk set has an embedding, and the embeddings have one length
C7_BuiltIndexInvariant ==
    chunk_embeddings # None =>
        /\ \A i \in 1..Len(chunks) : chunks[i].embedding # None
        /\ \A i, j \in 1..Len(chunks) :
              (chunks[i].embedding # None /\ chunks[j].embedding # None)
              => Len(chunks[i].embedding[1]) = Len(chunks[j].embedding[1])

\* C8: no two chunks of the chunk set have the same id
C8_IdUniqueness ==
    \A i, j \in 1..Len(chunks) : i # j => chunks[i].id # chunks[j].id

\* C9: build_index without force_rebuild, an artifact being there, calls the embed
\* capability not once, writes no artifact, and leaves as the chunk set exactly
\* the chunk sequence of the artifact
C9_CacheHit ==
    ( /\ call.op = "build_index"
      /\ ~call.args.force_rebuild
      /\ pre.index_file # None )
    => /\ ret.outcome = "ok"
       /\ ret.embed_calls = 0
       /\ ~ret.saved
       /\ index_file = pre.index_file
       /\ _save_index(chunks) = index_file[1]

\* a cache hit dropped chunks that had been loaded after the artifact was written
C9_Witness ==
    /\ call.op = "build_index"
    /\ ~call.args.force_rebuild
    /\ pre.index_file # None
    /\ Len(pre.chunks) > Len(chunks)
    /\ chunks # <<>>

\* C10: _load_index of what _save_index wrote gives the chunk sequence that was
\* saved, field for field, an absent optional field still absent
C10_RoundTrip ==
    (call.op = "build_index" /\ ret.saved) =>
        LET loaded == _load_index(index_file[1])
        IN  /\ loaded.error = ""
            /\ loaded.chunks = chunks
            /\ \A i \in 1..Len(chunks) : chunks[i].embedding # None

\* a chunk sequence was saved that has a chunk with no reference and no topic, and
\* chunks of both languages
C10_Witness ==
    /\ call.op = "build_index"
    /\ ret.saved
    /\ \E i \in 1..Len(chunks) : chunks[i].sutra_number = None /\ chunks[i].topic = None
    /\ \E i \in 1..Len(chunks) : chunks[i].sutra_number # None /\ chunks[i].topic # None
    /\ \E i, j \in 1..Len(chunks) :
          chunks[i].language = S_sanskrit /\ chunks[j].language = S_english

\* C11: after a build_index that embeds, the chunk at every position has the
\* embedding that the embed capability gives for its text, and so has its row of the
\* matrix; the batch loop gives the same vectors with batches of any size
C11_BatchIntegrity ==
    (call.op = "build_index" /\ ret.saved) =>
        LET texts == [i \in 1..Len(pre.chunks) |-> pre.chunks[i].text]
            expected == [i \in 1..Len(texts) |-> embed_fn[texts[i]]]
        IN  /\ Len(chunks) = Len(pre.chunks)
            /\ \A i \in 1..Len(chunks) :
                  /\ chunks[i].text = texts[i]
                  /\ chunks[i].embedding = Some(expected[i])
            /\ chunk_embeddings = Some(expected)
            /\ \A size \in 1..(Len(texts) + 1) : EmbedBatchesOf(texts, 0, size) = expected

\* a build embedded several batches, the last one short, of texts that do not all
\* have one vector
C11_Witness ==
    /\ call.op = "build_index"
    /\ ret.saved
    /\ Len(chunks) > batch_size
    /\ Len(chunks) % batch_size # 0
    /\ ret.embed_calls = (Len(chunks) \div batch_size) + 1
    /\ \E i, j \in 1..Len(chunks) : chunks[i].embedding # chunks[j].embedding

\* C12: when the embed capability fails on a batch of build_index, whichever batch
\* it is, the error reaches the caller, the artifact is not written, the chunks are
\* as they were (none got an embedding), and the index is built exactly if it was
C12_EmbedFailure ==
    (call.op = "build_index" /\ call.args.fail_at # 0) =>
        /\ ret.outcome = "EmbedError"
        /\ ret.embed_calls = call.args.fail_at
        /\ ~ret.saved
        /\ index_file = pre.index_file
        /\ chunks = pre.chunks
        /\ chunk_embeddings = pre.chunk_embeddings

\* the embed capability failed on the second and last batch of a forced rebuild of
\* a built index, after chunks had been added
C12_Witness ==
    /\ call.op = "build_index"
    /\ call.args.fail_at = 2
    /\ ret.outcome = "EmbedError"
    /\ Len(chunks) > batch_size
    /\ pre.index_file # None
    /\ pre.chunk_embeddings # None
    /\ \E i \in 1..Len(chunks) : chunks[i].embedding = None

----------------------------------------------------------------------------
(* Properties of the text loader *)

\* C13: when the data directory does not exist, load_texts returns without raising,
\* adds no chunk, and creates neither the directory nor an artifact
C13_MissingDirectory ==
    (call.op = "load_texts" /\ ~pre.data_dir_exists) =>
        /\ ret.outcome = "ok"
        /\ chunks = pre.chunks
        /\ chunk_embeddings = pre.chunk_embeddings
        /\ ~dir.exists
        /\ index_file = None

\* load_texts returned on a new object whose data directory does not exist
C13_Witness ==
    /\ call.op = "load_texts"
    /\ ~pre.data_dir_exists
    /\ ret.outcome = "ok"
    /\ chunks = <<>>

\* the chunks that the last call appended to the chunk set
Appended == SubSeq(chunks, Len(pre.chunks) + 1, Len(chunks))

\* C14: load_texts on a directory in which a .json file does not parse keeps the
\* chunks that were there and appends the chunks of every free-form file and of
\* every .json file that does parse
C14_MalformedFileOnly ==
    (call.op = "load_texts" /\ pre.data_dir_exists) =>
        /\ Len(chunks) >= Len(pre.chunks)
        /\ SubSeq(chunks, 1, Len(pre.chunks)) = pre.chunks
        /\ \A n \in 1..Len(dir.txt) :
              LET cs == _load_text_file(dir.txt[n])
              IN  \A i \in 1..Len(cs) : \E k \in 1..Len(Appended) : Appended[k] = cs[i]
        /\ \A n \in 1..Len(dir.json) :
              dir.json[n].content.ok =>
                  LET cs == _load_json_file(dir.json[n]).chunks
                  IN  \A i \in 1..Len(cs) : \E k \in 1..Len(Appended) : Appended[k] = cs[i]

\* C15: build_index that loads an artifact whose version tag is not "1.0", or that
\* has none, fails, and leaves the chunk set and the matrix as they were
C15_VersionCheck ==
    ( /\ call.op = "build_index"
      /\ ~call.args.force_rebuild
      /\ pre.index_file # None
      /\ Get(pre.index_file[1], S_version, JNull) # JStr(<<"1", ".", "0">>) )
    => /\ ret.outcome # "ok"
       /\ chunks = pre.chunks
       /\ chunk_embeddings = pre.chunk_embeddings

\* the id of the chunk that the language field of the record at index i (from 0)
\* of the file with this stem gives
RecordChunkId(stem, i, language) ==
    stem \o <<"_">> \o StrOfInt(i) \o
        (IF language = S_sanskrit THEN <<"_", "s", "a">> ELSE <<"_", "e", "n">>)

\* the value of a key of a record, None when the record has no such key
RecordField(record, key) ==
    IF \E p \in 1..Len(record.v) : record.v[p][1] = key
    THEN Some(record.v[CHOOSE p \in 1..Len(record.v) : record.v[p][1] = key][2].v)
    ELSE None

\* C16: of every structured-record file that load_texts read, each record gave one
\* chunk for each language field it has, with that language, an id of its own, and
\* the reference and the topic of the record (none when the record has none,
\* whatever its text says), and gave no chunk for a language field it has not
C16_StructuredRecords ==
    (call.op = "load_texts" /\ pre.data_dir_exists) =>
        \A n \in 1..Len(dir.json) :
            (\A m \in 1..n : dir.json[m].content.ok) =>
                LET stem == dir.json[n].stem
                    records == dir.json[n].content.data.v
                    from_file == {k \in 1..Len(Appended) : Appended[k].source = stem}
                IN  /\ \A i \in 1..Len(records), language \in {S_sanskrit, S_english} :
                          LET got == {k \in from_file :
                                         Appended[k].id =
                                             RecordChunkId(stem, i - 1, language)}
                          IN  IF RecordField(records[i], language) # None
                              THEN /\ Cardinality(got) = 1
                                   /\ \A k \in got :
                                         /\ Appended[k].language = language
                                         /\ Appended[k].sutra_number =
                                                RecordField(records[i], S_sutra)
                                         /\ Appended[k].topic =
                                                RecordField(records[i], S_topic)
                              ELSE got = {}
                    /\ Cardinality(from_file) =
                          Cardinality({p \in (1..Len(records)) \X {S_sanskrit, S_english} :
                                          RecordField(records[p[1]], p[2]) # None})

\* load_texts read a record that has neither a topic nor a reference, and whose
\* English text names a topic and has a reference in it
C16_Witness ==
    /\ call.op = "load_texts"
    /\ \E k \in 1..Len(Appended) :
          /\ Appended[k].id = RecordChunkId(Appended[k].source, 0, S_english)
          /\ Appended[k].topic = None
          /\ Appended[k].sutra_number = None
          /\ _infer_topic(Appended[k].text) # None
          /\ _extract_sutra_number(Appended[k].text) # None

\* the indices in Appended of the chunks that have this source, in order
FromSource(stem) == Ascending({k \in 1..Len(Appended) : Appended[k].source = stem})

\* C17: of every free-form file load_texts appended one chunk for each paragraph
\* (the pieces between blank lines) that is not empty when trimmed, in the order of
\* the file, with the trimmed paragraph as text, numbered from 0 in the id; the
\* chunks of a file whose name has 'ashtadhyayi' or 'kashika' in it have language
\* 'sanskrit' and those of any other file 'english'
C17_FreeFormLoading ==
    (call.op = "load_texts" /\ pre.data_dir_exists) =>
        \A n \in 1..Len(dir.txt) :
            LET stem == dir.txt[n].stem
                pieces == Split(dir.txt[n].content, <<"\n", "\n">>)
                nonempty == Ascending({k \in 1..Len(pieces) : Strip(pieces[k]) # <<>>})
                got == FromSource(stem)
            IN  /\ Len(got) = Len(nonempty)
                /\ \A j \in 1..Len(got) :
                      LET chunk == Appended[got[j]]
                      IN  /\ chunk.text # <<>>
                          /\ chunk.text = Strip(pieces[nonempty[j]])
                          /\ chunk.id = stem \o <<"_">> \o StrOfInt(j - 1)
                          /\ chunk.language =
                                IF \/ Contains(stem, S_ashtadhyayi)
                                   \/ Contains(stem, S_kashika)
                                THEN S_sanskrit ELSE S_english

\* load_texts read ashtadhyayi.txt with two paragraphs and kale_grammar.txt with
\* one paragraph: 3 chunks, 2 of them 'sanskrit' and 1 'english'
C17_Witness ==
    /\ call.op = "load_texts"
    /\ dir = D_ashtadhyayi
    /\ Len(Appended) = 3
    /\ Cardinality({k \in 1..3 : Appended[k].language = S_sanskrit
                                  /\ Appended[k].source = S_ashtadhyayi}) = 2
    /\ Cardinality({k \in 1..3 : Appended[k].language = S_english
                                  /\ Appended[k].source = S_kale_grammar}) = 1

\* the order of the topic tags
TopicOrder == <<S_sandhi, S_lakara, S_dhatu, S_vibhakti, S_samasa>>

\* a keyword of this tag occurs in the text, in upper or lower case
KeywordOccurs(text, tag) ==
    \E e \in 1..Len(TopicTable) :
        /\ TopicTable[e].tag = tag
        /\ \E word \in TopicTable[e].words :
              \E i \in 1..(Len(text) - Len(word) + 1) :
                  Lower(SubSeq(text, i, i + Len(word) - 1)) = word

\* C18: the topic of a chunk of a free-form file is the first tag, in the order
\* sandhi, lakara, dhatu, vibhakti, samasa, that has a keyword occurring in the
\* text of the chunk in upper or lower case, and none when no tag has one
C18_TopicPriority ==
    (call.op = "load_texts" /\ pre.data_dir_exists) =>
        \A k \in 1..Len(Appended) :
            (\E n \in 1..Len(dir.txt) : dir.txt[n].stem = Appended[k].source) =>
                LET text == Appended[k].text
                    hits == {e \in 1..Len(TopicOrder) : KeywordOccurs(text, TopicOrder[e])}
                IN  /\ Appended[k].topic = _infer_topic(text)
                    /\ IF hits = {} THEN Appended[k].topic = None
                       ELSE \E e \in hits :
                                /\ Appended[k].topic = Some(TopicOrder[e])
                                /\ \A e2 \in hits : e <= e2

\* a paragraph with keywords of two tags, one of them not in lower case, was
\* loaded, and one with a keyword in Devanagari
C18_Witness ==
    /\ call.op = "load_texts"
    /\ \E k \in 1..Len(Appended) :
          /\ Appended[k].topic = Some(S_vibhakti)
          /\ KeywordOccurs(Appended[k].text, S_samasa)
          /\ ~Contains(Appended[k].text, <<"c", "a", "s", "e">>)
    /\ \E k \in 1..Len(Appended) :
          /\ Appended[k].topic = Some(S_dhatu)
          /\ Contains(Appended[k].text, <<"U+0927", "U+093E", "U+0924", "U+0941">>)
          /\ KeywordOccurs(Appended[k].text, S_samasa)

----------------------------------------------------------------------------
(* Generation tasks (python/vedyut/llm/tasks.py) *)

\* the largest number of candidates disambiguate_segmentation is called with
MaxCandidates == 3

DevanagariDigits == <<"U+0966", "U+0967", "U+0968", "U+0969", "U+096A",
                      "U+096B", "U+096C", "U+096D", "U+096E", "U+096F">>

\* the value of a decimal digit, of the ASCII or of the Devanagari ones; -1 for any
\* other character
DigitValue(c) ==
    IF \E d \in 1..10 : Digits[d] = c THEN (CHOOSE d \in 1..10 : Digits[d] = c) - 1
    ELSE IF \E d \in 1..10 : DevanagariDigits[d] = c
         THEN (CHOOSE d \in 1..10 : DevanagariDigits[d] = c) - 1
    ELSE -1

\* t.split(): the pieces of t between runs of white space, none of them empty
RECURSIVE Words(_)
Words(t) ==
    LET s == LStrip(t)
        n == IF \E i \in 1..Len(s) : IsSpace(s[i])
             THEN (CHOOSE i \in 1..Len(s) : IsSpace(s[i]) /\ \A h \in 1..(i - 1) : ~IsSpace(s[h])) - 1
             ELSE Len(s)
    IN  IF s = <<>> THEN <<>>
        ELSE <<SubSeq(s, 1, n)>> \o Words(SubSeq(s, n + 1, Len(s)))

RECURSIVE DecimalValue(_)
DecimalValue(ds) ==
    IF ds = <<>> THEN 0
    ELSE 10 * DecimalValue(SubSeq(ds, 1, Len(ds) - 1)) + DigitValue(ds[Len(ds)])

\* int(token) for a token without white space: Some(n), or None for ValueError.
\* An optional sign, then decimal digits, single underscores allowed between them.
PyInt(token) ==
    LET signed == token # <<>> /\ token[1] \in {"+", "-"}
        digits == IF signed THEN Tail(token) ELSE token
        wellFormed ==
            /\ digits # <<>>
            /\ \A i \in 1..Len(digits) : DigitValue(digits[i]) >= 0 \/ digits[i] = "_"
            /\ digits[1] # "_"
            /\ digits[Len(digits)] # "_"
            /\ \A i \in 1..(Len(digits) - 1) : ~(digits[i] = "_" /\ digits[i + 1] = "_")
        IsDecimal(c) == DigitValue(c) >= 0
        value == DecimalValue(SelectSeq(digits, IsDecimal))
    IN  IF ~wellFormed THEN None
        ELSE Some(IF signed /\ token[1] = "-" THEN -value ELSE value)

\* the index without the lower limit
ClampIndexNoFloor(number, n) == Min(number - 1, n - 1)

\* max(0, min(number - 1, len(candidates) - 1)), for n candidates
ClampIndex(number, n) == Max(0, Min(number - 1, n - 1))

\* how a task ends: "ok" or the exception that leaves it, the value returned, and
\* whether the completion capability was called
TaskOutcome(outcome, value, asked) ==
    [outcome |-> outcome, value |-> value, asked |-> asked]

\* rag.query(query_text, top_k=2, topic=topic) as a task calls it when it is given a
\* rag: "ok", or the exception that query raises; "ok" when no rag is given
Retrieval(rag, query_text, topic, embed_ok) ==
    IF rag = None THEN "ok"
    ELSE LET outs == query(rag[1], query_text, 2, topic, None, embed_ok)
         IN  (CHOOSE out \in outs : TRUE).outcome

S_test_cases == <<"t", "e", "s", "t", "_", "c", "a", "s", "e", "s">>

S_sandhi_rules_for == <<"s", "a", "n", "d", "h", "i", " ", "r", "u", "l", "e", "s", " ", "f", "o", "r", ":", " ">>

\* disambiguate_segmentation(text, candidates, llm, rag).  completion is what
\* llm.complete does: [ok |-> it returns, content |-> the text returned, or None]
disambiguate_segmentation(text, candidates, completion, rag, embed_ok) ==
    LET retrieval == Retrieval(rag, S_sandhi_rules_for \o text, Some(S_sandhi), embed_ok)
    IN  IF retrieval # "ok" THEN TaskOutcome(retrieval, 0, FALSE)
        ELSE IF ~completion.ok THEN TaskOutcome("CompletionError", 0, TRUE)
        ELSE IF completion.content = None THEN TaskOutcome("AttributeError", 0, TRUE)
        ELSE LET words == Words(Strip(completion.content[1]))
             IN  \* words[0] raises IndexError, int raises ValueError: both caught
                 IF words = <<>> THEN TaskOutcome("ok", 0, TRUE)
                 ELSE IF PyInt(words[1]) = None THEN TaskOutcome("ok", 0, TRUE)
                 ELSE TaskOutcome("ok", ClampIndex(PyInt(words[1])[1], Len(candidates)),
                                  TRUE)

\* generate_test_cases(function_description, rag, llm).  completion is what
\* llm.complete_with_json meets: [ok |-> the completion call returns, content |->
\* None or the text returned, as [parses |-> json.loads accepts it, data |-> the
\* value it gives]].  The value returned is a JSON value, a list being an array.
generate_test_cases(function_description, completion, rag, embed_ok) ==
    LET retrieval == Retrieval(rag, function_description, None, embed_ok)
    IN  IF retrieval # "ok" THEN TaskOutcome(retrieval, JNull, FALSE)
        \* inside try: every Exception is caught and [] returned
        ELSE IF ~completion.ok THEN TaskOutcome("ok", JArr(<<>>), TRUE)
        ELSE IF completion.content = None THEN TaskOutcome("ok", JArr(<<>>), TRUE)
        ELSE IF ~completion.content[1].parses THEN TaskOutcome("ok", JArr(<<>>), TRUE)
        ELSE LET result == completion.content[1].data
             IN  IF result.t = "obj" /\ HasKey(result, S_test_cases)
                 THEN TaskOutcome("ok", Item(result, S_test_cases), TRUE)
                 ELSE IF result.t = "arr" THEN TaskOutcome("ok", result, TRUE)
                 ELSE TaskOutcome("ok", JArr(<<>>), TRUE)

\* the text to segment and the description of the function to test
TaskTexts == {<<"t">>}
FunctionDescriptions == {<<"f">>}

\* n candidate segmentations, of one word each
CandidatesOf(n) == [i \in 1..n |-> <<StrOfInt(i)>>]

\* the texts that the completion capability answers disambiguate_segmentation with
ResponseTexts ==
    { <<>>, <<" ">>, <<"2">>, <<" ", "2", "\n">>, <<"2", ".">>, <<"3", " ", "i", "s", " ", "b", "e", "s", "t">>,
       <<"T", "h", "e", " ", "2">>, <<"0">>, <<"-", "1">>, <<"9">>, <<"+", "2">>, <<"1", "_", "0">>,
       <<"_", "1">>, <<"U+0968">>, <<"2", "n", "d">> }

\* what llm.complete does: it raises, or returns the content of the message, a text
\* or None
Completions ==
    {[ok |-> FALSE, content |-> None], [ok |-> TRUE, content |-> None]}
        \cup {[ok |-> TRUE, content |-> Some(text)] : text \in ResponseTexts}

TestCase == JObj(<< <<<<"i", "n", "p", "u", "t">>, JStr(<<"a">>)>>, <<<<"e", "x", "p", "e", "c", "t", "e", "d">>, JStr(<<"b">>)>> >>)

\* the values that the texts the completion capability answers generate_test_cases
\* with parse to
JsonResponses ==
    { JNull, JNum(1), JStr(<<"x">>), JArr(<<>>), JArr(<<TestCase>>), JObj(<<>>),
       JObj(<< <<<<"c", "a", "s", "e", "s">>, JArr(<<TestCase>>)>> >>),
       JObj(<< <<S_test_cases, JArr(<<TestCase>>)>> >>),
       JObj(<< <<S_test_cases, JArr(<<>>)>> >>),
       JObj(<< <<S_test_cases, JStr(<<"x">>)>> >>),
       JObj(<< <<S_test_cases, JNull>> >>) }

\* what llm.complete_with_json meets: the completion call raises, the content is
\* None, the content is not JSON, or it parses to a value
JsonCompletions ==
    {[ok |-> FALSE, content |-> None], [ok |-> TRUE, content |-> None],
      [ok |-> TRUE, content |-> Some([parses |-> FALSE, data |-> JNull])]}
        \cup {[ok |-> TRUE, content |-> Some([parses |-> TRUE, data |-> data])] :
                  data \in JsonResponses}

\* the query texts of the two tasks
TaskQueryTexts == {S_sandhi_rules_for \o text : text \in TaskTexts} \cup FunctionDescriptions

\* a GrammarRAG on the directory of free-form files, and no artifact
InitTasks ==
    /\ dir = D_txt
    /\ embed_fn \in {f \in [TextsOf(dir) \cup TaskQueryTexts -> Vectors] :
                       \A query_text \in TaskQueryTexts : f[query_text] \in QueryVectors}
    /\ index_file = None
    /\ chunks = <<>>
    /\ chunk_embeddings = None
    /\ call = Call("__init__", NoArgs)
    /\ ret = NoResult
    /\ pre = Self

\* a task is called without a rag, or with the GrammarRAG object as it is; the embed
\* capability answers the query of the task or raises
DisambiguateSegmentation ==
    \E text \in TaskTexts, n \in 0..MaxCandidates, completion \in Completions,
       rag_given \in BOOLEAN :
    \E embed_ok \in IF rag_given THEN BOOLEAN ELSE {TRUE} :
        /\ pre' = Self
        /\ call' = Call("disambiguate_segmentation",
                        [text |-> text, candidates |-> CandidatesOf(n),
                         completion |-> completion, rag_given |-> rag_given,
                         embed_ok |-> embed_ok])
        /\ ret' = disambiguate_segmentation(text, CandidatesOf(n), completion,
                                            IF rag_given THEN Some(Self) ELSE None,
                                            embed_ok)
        /\ UNCHANGED <<dir, embed_fn, chunks, chunk_embeddings, index_file>>

GenerateTestCases ==
    \E function_description \in FunctionDescriptions, completion \in JsonCompletions,
       rag_given \in BOOLEAN :
    \E embed_ok \in IF rag_given THEN BOOLEAN ELSE {TRUE} :
        /\ pre' = Self
        /\ call' = Call("generate_test_cases",
                        [function_description |-> function_description,
                         completion |-> completion, rag_given |-> rag_given,
                         embed_ok |-> embed_ok])
        /\ ret' = generate_test_cases(function_description, completion,
                                      IF rag_given THEN Some(Self) ELSE None, embed_ok)
        /\ UNCHANGED <<dir, embed_fn, chunks, chunk_embeddings, index_file>>

NextTasks == LoadTexts \/ BuildIndex \/ DisambiguateSegmentation \/ GenerateTestCases

SpecTasks == InitTasks /\ [][NextTasks]_vars

----------------------------------------------------------------------------
(* Properties of the generation tasks *)

\* the text, trimmed, begins with a decimal digit, or with a sign and a digit
StartsWithInteger(text) ==
    LET t == Strip(text)
    IN  /\ t # <<>>
        /\ \/ DigitValue(t[1]) >= 0
           \/ t[1] \in {"+", "-"} /\ Len(t) >= 2 /\ DigitValue(t[2]) >= 0

\* C19: whatever text the completion capability answers, disambiguate_segmentation
\* with one candidate or more returns an index i, 0 <= i <= len(candidates) - 1, and
\* raises nothing; it returns 0 when the text does not start with an integer
C19_DisambiguationUsable ==
    ( /\ call.op = "disambiguate_segmentation"
      /\ ret.asked
      /\ call.args.completion.ok
      /\ call.args.completion.content # None
      /\ call.args.candidates # <<>> )
    => /\ ret.outcome = "ok"
       /\ ret.value \in 0..(Len(call.args.candidates) - 1)
       /\ ~StartsWithInteger(call.args.completion.content[1]) => ret.value = 0

\* the task, given a rag, was answered with white space only and returned the
\* first of three candidates
C19_Witness ==
    /\ call.op = "disambiguate_segmentation"
    /\ call.args.rag_given
    /\ ret.asked
    /\ call.args.completion.content = Some(<<" ">>)
    /\ Len(call.args.candidates) = 3
    /\ ret.outcome = "ok"
    /\ ret.value = 0

\* C20: whatever the completion call does, generate_test_cases returns a list and
\* raises nothing: the empty list when the call fails, when the response is not
\* JSON, when it is neither a list nor an object with a 'test_cases' key, and when
\* the value of 'test_cases' is not a list
C20_TestCasesList ==
    (call.op = "generate_test_cases" /\ ret.asked) =>
        LET completion == call.args.completion
            parsed == completion.ok /\ completion.content # None
                          /\ completion.content[1].parses
            data == completion.content[1].data
            cases == IF data.t = "arr" THEN Some(data)
                     ELSE IF data.t = "obj" /\ HasKey(data, S_test_cases)
                               /\ Item(data, S_test_cases).t = "arr"
                          THEN Some(Item(data, S_test_cases))
                     ELSE None
        IN  /\ ret.outcome = "ok"
            /\ ret.value.t = "arr"
            /\ (~parsed \/ cases = None) => ret.value = JArr(<<>>)

----------------------------------------------------------------------------
(* HTTP API (python/vedyut/api/main.py): POST /v1/transliterate *)

S_result == <<"r", "e", "s", "u", "l", "t">>
S_from_scheme == <<"f", "r", "o", "m", "_", "s", "c", "h", "e", "m", "e">>
S_to_scheme == <<"t", "o", "_", "s", "c", "h", "e", "m", "e">>
S_took_ms == <<"t", "o", "o", "k", "_", "m", "s">>
S_detail == <<"d", "e", "t", "a", "i", "l">>

\* the response with the two schemes exchanged
TransliterateResponseSwapped(result, from_scheme, to_scheme, took_ms) ==
    [t |-> "obj",
     v |-> << <<S_result, [t |-> "str", v |-> result]>>,
              <<S_from_scheme, [t |-> "str", v |-> to_scheme]>>,
              <<S_to_scheme, [t |-> "str", v |-> from_scheme]>>,
              <<S_took_ms, [t |-> "num", v |-> took_ms]>> >>]

\* the response model, as it is serialized
TransliterateResponse(result, from_scheme, to_scheme, took_ms) ==
    JObj(<< <<S_result, JStr(result)>>,
            <<S_from_scheme, JStr(from_scheme)>>,
            <<S_to_scheme, JStr(to_scheme)>>,
            <<S_took_ms, JNum(took_ms)>> >>)

\* TransliterateRequest accepts a JSON object in which the three fields are strings
\* (Field(...): required; a null is not a str)
TransliterateRequestValid(payload) ==
    \A field \in {S_text, S_from_scheme, S_to_scheme} :
        HasKey(payload, field) /\ Item(payload, field).t = "str"

HttpResponse(status, json) == [status |-> status, json |-> json]

\* POST /v1/transliterate with this JSON payload; took_ms is what the two readings
\* of the clock give
transliterate(payload, took_ms) ==
    IF ~TransliterateRequestValid(payload)
    THEN HttpResponse(422, JObj(<< <<S_detail, JArr(<<>>)>> >>))
    ELSE LET text == Item(payload, S_text).v
             from_scheme == Item(payload, S_from_scheme).v
             to_scheme == Item(payload, S_to_scheme).v
             result == <<"[", "T", "O", "D", "O", ":", " ", "T", "r", "a", "n", "s", "l", "i", "t", "e", "r", "a", "t", "e", " ", "'">> \o text \o <<"'", " ", "f", "r", "o", "m", " ">>
                           \o from_scheme \o <<" ", "t", "o", " ">> \o to_scheme \o <<"]">>
         IN  HttpResponse(200, TransliterateResponse(result, from_scheme, to_scheme,
                                                      took_ms))

\* what a field of a payload is: not given (None), or given with a JSON value
RequestTexts == {None, Some(JNull), Some(JStr(<<>>)), Some(JStr(<<"a">>)),
                 Some(JStr(<<"d", "h", "a", "r", "m", "a", "k">> \o <<"U+1E63">> \o <<"e", "t", "r", "e">>))}
RequestSchemes == {None, Some(JNull), Some(JStr(<<"i", "a", "s", "t">>)),
                   Some(JStr(<<"d", "e", "v", "a", "n", "a", "g", "a", "r", "i">>)), Some(JStr(<<"x">>))}

\* the payload with the fields that are given
PayloadOf(text, from_scheme, to_scheme) ==
    JObj((IF text = None THEN <<>> ELSE << <<S_text, text[1]>> >>)
         \o (IF from_scheme = None THEN <<>> ELSE << <<S_from_scheme, from_scheme[1]>> >>)
         \o (IF to_scheme = None THEN <<>> ELSE << <<S_to_scheme, to_scheme[1]>> >>))

\* the elapsed times measured, in ms
ElapsedTimes == {0, 1}

\* the application is started; no GrammarRAG is involved
InitApi ==
    /\ dir = D_missing
    /\ embed_fn = [query_text \in QueryTexts |-> <<1, 0>>]
    /\ index_file = None
    /\ chunks = <<>>
    /\ chunk_embeddings = None
    /\ call = Call("startup", NoArgs)
    /\ ret = NoResult
    /\ pre = Self

Transliterate ==
    \E text \in RequestTexts, from_scheme \in RequestSchemes, to_scheme \in RequestSchemes,
       took_ms \in ElapsedTimes :
        /\ pre' = Self
        /\ call' = Call("POST /v1/transliterate",
                        [payload |-> PayloadOf(text, from_scheme, to_scheme)])
        /\ ret' = transliterate(PayloadOf(text, from_scheme, to_scheme), took_ms)
        /\ UNCHANGED <<dir, embed_fn, chunks, chunk_embeddings, index_file>>

NextApi == Transliterate

SpecApi == InitApi /\ [][NextApi]_vars

\* C21: POST /v1/transliterate with text, from_scheme and to_scheme given (as
\* strings) answers 200, and the body has result and took_ms, and the from_scheme
\* and to_scheme of the request
C21_TransliterateContract ==
    ( /\ call.op = "POST /v1/transliterate"
      /\ TransliterateRequestValid(call.args.payload) )
    => /\ ret.status = 200
       /\ HasKey(ret.json, S_result)
       /\ HasKey(ret.json, S_took_ms)
       /\ HasKey(ret.json, S_from_scheme)
       /\ HasKey(ret.json, S_to_scheme)
       /\ Item(ret.json, S_from_scheme) = Item(call.args.payload, S_from_scheme)
       /\ Item(ret.json, S_to_scheme) = Item(call.args.payload, S_to_scheme)

\* the request of the test: dharmaksetre from iast to devanagari
C21_Witness ==
    /\ call.op = "POST /v1/transliterate"
    /\ HasKey(call.args.payload, S_text)
    /\ Item(call.args.payload, S_text).t = "str"
    /\ Len(Item(call.args.payload, S_text).v) > 1
    /\ HasKey(call.args.payload, S_from_scheme)
    /\ Item(call.args.payload, S_from_scheme) = JStr(<<"i", "a", "s", "t">>)
    /\ HasKey(call.args.payload, S_to_scheme)
    /\ Item(call.args.payload, S_to_scheme) = JStr(<<"d", "e", "v", "a", "n", "a", "g", "a", "r", "i">>)
    /\ ret.status = 200

----------------------------------------------------------------------------
(* Properties of reloading and rebuilding *)

\* the chunks that load_texts reads from the data directory as it is, whatever
\* the chunk set holds
Yield == load_texts(dir, None, 0).chunks

\* C22: load_texts leaves the chunks that were in the chunk set in their places and
\* as they were, and appends after them all the chunks it reads, also those that
\* are in the set already: each call on a directory that yields m chunks adds m
C22_AppendOnlyReload ==
    call.op = "load_texts" =>
        /\ SubSeq(chunks, 1, Len(pre.chunks)) = pre.chunks
        /\ Appended = Yield
        /\ Len(chunks) = Len(pre.chunks) + Len(Yield)
        /\ chunk_embeddings = pre.chunk_embeddings
        /\ index_file = pre.index_file

\* the second load_texts of an object left every chunk of the directory twice in
\* the chunk set
C22_Witness ==
    /\ call.op = "load_texts"
    /\ pre.chunks # <<>>
    /\ pre.chunks = Yield
    /\ chunks = Yield \o Yield

\* the last call was build_index(force_rebuild=True) on a chunk set that was not
\* empty, and it returned
ForcedRebuild ==
    /\ call.op = "build_index"
    /\ call.args.force_rebuild
    /\ pre.chunks # <<>>
    /\ ret.outcome = "ok"

\* C23: build_index(force_rebuild=True) on a chunk set that is not empty embeds
\* every chunk of the set, also when an artifact exists; the chunk set stays the one
\* in memory, each chunk with its new embedding, and the artifact written holds
\* exactly this chunk sequence
C23_ForcedRebuildIgnoresCache ==
    ForcedRebuild =>
        /\ ret.embed_calls = NumBatches(Len(pre.chunks))
        /\ Len(chunks) = Len(pre.chunks)
        /\ \A i \in 1..Len(chunks) :
               chunks[i] = [pre.chunks[i] EXCEPT
                               !.embedding = Some(embed_fn[pre.chunks[i].text])]
        /\ chunk_embeddings = Some([i \in 1..Len(chunks) |-> embed_fn[chunks[i].text]])
        /\ ret.saved
        /\ index_file # None
        /\ _load_index(index_file[1]).error = ""
        /\ _load_index(index_file[1]).chunks = chunks

\* a forced rebuild returned on an object whose chunk set held more chunks than the
\* artifact that existed, some of them without an embedding
C23_Witness ==
    /\ ForcedRebuild
    /\ pre.index_file # None
    /\ _load_index(pre.index_file[1]).error = ""
    /\ Len(_load_index(pre.index_file[1]).chunks) < Len(pre.chunks)
    /\ \E i \in 1..Len(pre.chunks) : pre.chunks[i].embedding = None
    /\ index_file # pre.index_file

\* C24: whenever the index is built, the embedding matrix has exactly one row for
\* each chunk of the chunk set, row i being the embedding of chunk i, and a query
\* on a built index that got its query vector ends with a result, not an exception
C24_MatrixChunkAgreement ==
    /\ chunk_embeddings # None =>
           /\ Len(chunk_embeddings[1]) = Len(chunks)
           /\ \A i \in 1..Len(chunks) :
                  chunks[i].embedding = Some(chunk_embeddings[1][i])
    /\ ( /\ call.op = "query"
         /\ pre.chunk_embeddings # None
         /\ ret.outcome # "EmbedError" )
       => ret.outcome = "ok"

\* the first half alone: the matrix has one row for each chunk
C24_RowPerChunk ==
    chunk_embeddings # None => Len(chunk_embeddings[1]) = Len(chunks)

\* the second half alone: a query on a built index does not end with IndexError
C24_NoIndexError ==
    (call.op = "query" /\ pre.chunk_embeddings # None) => ret.outcome # "IndexError"

\* how load_texts ends on the data directory as it is when no artifact is among
\* its files
SourceOutcome ==
    IF load_texts(dir, None, 0).error = "" THEN "ok" ELSE load_texts(dir, None, 0).error

\* C26: load_texts after an index was persisted visits the artifact among the *.json
\* files of the data directory; the artifact raises no exception and gives no chunk:
\* the call ends as it does on the source files alone and appends their chunks only
C26_ArtifactNotIngested ==
    (call.op = "load_texts" /\ pre.index_file # None) =>
        /\ ret.outcome = SourceOutcome
        /\ Appended = Yield
        /\ \A i \in 1..Len(Appended) : Appended[i].source # S_grammar_index
        /\ \A i \in 1..Len(chunks) : chunks[i].source # S_grammar_index

\* load_texts returned on a directory that holds the artifact next to a source
\* file of structured records, and appended chunks
C26_Witness ==
    /\ call.op = "load_texts"
    /\ pre.index_file # None
    /\ HasKey(pre.index_file[1], S_chunks)
    /\ Item(pre.index_file[1], S_chunks).v # <<>>
    /\ dir.json # <<>>
    /\ ret.outcome = "ok"
    /\ Appended # <<>>

----------------------------------------------------------------------------
(* build_index and query of one GrammarRAG, interleaved *)

\* Two threads call build_index and query on the same object; no lock guards the
\* object (rag.py has none).  A step of a thread ends at a read or a write of
\* self.chunks or self.chunk_embeddings.  call.build and call.query are the lines
\* the threads are at, call.all_embeddings is the local of build_index, and ret
\* holds the locals of query: what it read at each line, and how it ended
\* (outcome "" while it runs).

\* the chunk set after n calls of load_texts on the directory
RECURSIVE LoadedTimes(_)
LoadedTimes(n) ==
    IF n = 0 THEN <<>> ELSE AppendChunks(LoadedTimes(n - 1), load_texts(dir, None, 0).chunks)

\* the chunk list cs after build_index attached the embeddings
Embedded(cs) == [i \in 1..Len(cs) |-> [cs[i] EXCEPT !.embedding = Some(embed_fn[cs[i].text])]]

\* The object when the two calls begin: it has loaded the directory some times and
\* has not built its index, or it has built it from the chunks of n loads.  The
\* artifact is the one that this object, or another GrammarRAG on the same data
\* directory, wrote last: the chunks of m loads with their embeddings.  The loads
\* are as many as give a chunk set of MaxChunks chunks at most.
InitInterleave ==
    /\ dir = D_txt
    /\ embed_fn \in {f \in [TextsOf(dir) \cup QueryTexts -> Vectors] :
                       \A query_text \in QueryTexts : f[query_text] \in QueryVectors}
    /\ \/ /\ chunk_embeddings = None
          /\ chunks \in {LoadedTimes(n) : n \in 0..(MaxChunks \div 2)}
          /\ index_file \in {None} \cup {Some(_save_index(Embedded(LoadedTimes(m)))) :
                                             m \in 1..(MaxChunks \div 2)}
       \/ /\ chunks \in {Embedded(LoadedTimes(n)) : n \in 1..(MaxChunks \div 2)}
          /\ chunk_embeddings = Some(MatrixOf(chunks))
          /\ index_file \in {Some(_save_index(Embedded(LoadedTimes(m)))) :
                                 m \in 1..(MaxChunks \div 2)}
    /\ \E force_rebuild \in BOOLEAN, query_text \in QueryTexts, top_k \in 1..MaxTopK,
          topic \in TopicFilters :
           call = [op |-> "build_index || query",
                   args |-> [NoArgs EXCEPT !.force_rebuild = force_rebuild,
                                           !.query_text = query_text,
                                           !.top_k = top_k, !.topic = topic],
                   build |-> "194", query |-> "261", all_embeddings |-> <<>>]
    /\ ret = [outcome |-> "", top_indices |-> <<>>, embed_calls |-> 0, saved |-> FALSE,
              dot |-> None, norm |-> None, similarities |-> <<>>, enumerated |-> None,
              results |-> None]
    /\ pre = Self

\* build_index, lines 194-214: the tests of the two early returns, and the batch loop
BuildTest ==
    /\ call.build = "194"
    /\ IF CacheHit(Self, call.args.force_rebuild)
       THEN call' = [call EXCEPT !.build = "240"]
       ELSE IF NoChunks(Self)
       THEN call' = [call EXCEPT !.build = "done"]
       ELSE call' = [call EXCEPT
                        !.build = "217",
                        !.all_embeddings =
                            EmbedBatches([i \in 1..Len(chunks) |-> chunks[i].text], 0)]
    /\ UNCHANGED <<dir, embed_fn, chunks, chunk_embeddings, index_file, ret, pre>>

\* _load_index, lines 237-240: self.chunks = [GrammarChunk(**chunk) for ...]
LoadChunks ==
    /\ call.build = "240"
    /\ LET loaded == _load_index(index_file[1])
       IN  IF loaded.error # ""
           THEN /\ call' = [call EXCEPT !.build = "done"]
                /\ UNCHANGED chunks
           ELSE /\ call' = [call EXCEPT !.build = "241"]
                /\ chunks' = loaded.chunks
    /\ UNCHANGED <<dir, embed_fn, chunk_embeddings, index_file, ret, pre>>

\* _load_index, line 241: self.chunk_embeddings = np.array([...])
LoadMatrix ==
    /\ call.build = "241"
    /\ chunk_embeddings' = Some(MatrixOf(chunks))
    /\ call' = [call EXCEPT !.build = "done"]
    /\ UNCHANGED <<dir, embed_fn, chunks, index_file, ret, pre>>

\* build_index, lines 217-218: chunk.embedding = embedding; zip stops at the
\* shorter list
AttachEmbeddings ==
    /\ call.build = "217"
    /\ chunks' = [i \in 1..Len(chunks) |->
                     IF i <= Len(call.all_embeddings)
                     THEN [chunks[i] EXCEPT !.embedding = Some(call.all_embeddings[i])]
                     ELSE chunks[i]]
    /\ call' = [call EXCEPT !.build = "220"]
    /\ UNCHANGED <<dir, embed_fn, chunk_embeddings, index_file, ret, pre>>

\* build_index, line 220: self.chunk_embeddings = np.array(all_embeddings)
AssignMatrix ==
    /\ call.build = "220"
    /\ chunk_embeddings' = Some(call.all_embeddings)
    /\ call' = [call EXCEPT !.build = "223"]
    /\ UNCHANGED <<dir, embed_fn, chunks, index_file, ret, pre>>

\* build_index, line 223: self._save_index()
SaveIndex ==
    /\ call.build = "223"
    /\ index_file' = Some(_save_index(chunks))
    /\ dir' = [dir EXCEPT !.exists = TRUE]
    /\ call' = [call EXCEPT !.build = "done"]
    /\ ret' = [ret EXCEPT !.saved = TRUE]
    /\ UNCHANGED <<embed_fn, chunks, chunk_embeddings, pre>>

\* query, line 261: if self.chunk_embeddings is None: raise ValueError
QueryTest ==
    /\ call.query = "261"
    /\ IF chunk_embeddings = None
       THEN /\ call' = [call EXCEPT !.query = "done"]
            /\ ret' = [ret EXCEPT !.outcome = "ValueError: Index not built"]
       ELSE /\ call' = [call EXCEPT !.query = "269"]
            /\ UNCHANGED ret
    /\ UNCHANGED <<dir, embed_fn, chunks, chunk_embeddings, index_file, pre>>

\* query, lines 265-269: the query vector, and np.dot(self.chunk_embeddings, query_vec)
QueryDot ==
    /\ call.query = "269"
    /\ ret' = [ret EXCEPT !.dot = chunk_embeddings, !.embed_calls = 1]
    /\ call' = [call EXCEPT !.query = "270"]
    /\ UNCHANGED <<dir, embed_fn, chunks, chunk_embeddings, index_file, pre>>

\* the score of a row whose dot product was taken of row a and whose norm of row b
SimilarityOf(a, b, q) ==
    LET d == Dot(a, q)
        num == IF d < 0 THEN -(d * d) ELSE d * d
        den == Dot(b, b) * Dot(q, q)
        g == GCD(Abs(num), den)
    IN  <<num \div g, den \div g>>

\* query, lines 270-271: np.linalg.norm(self.chunk_embeddings, axis=1), and the
\* division.  The matrices of the model have two rows or more, so two arrays of
\* different lengths cannot be broadcast: the division raises ValueError.
QueryNorm ==
    /\ call.query = "270"
    /\ LET a == ret.dot[1]
           b == chunk_embeddings[1]
           q == embed_single(call.args.query_text)
       IN  IF Len(a) # Len(b)
           THEN /\ ret' = [ret EXCEPT !.norm = chunk_embeddings,
                                      !.outcome = "ValueError: broadcast"]
                /\ call' = [call EXCEPT !.query = "done"]
           ELSE /\ ret' = [ret EXCEPT
                              !.norm = chunk_embeddings,
                              !.similarities =
                                  [i \in 1..Len(a) |-> SimilarityOf(a[i], b[i], q)]]
                /\ call' = [call EXCEPT !.query = "275"]
    /\ UNCHANGED <<dir, embed_fn, chunks, chunk_embeddings, index_file, pre>>

\* query, lines 274-287: the filter loop over self.chunks, and top_indices
QueryFilter ==
    /\ call.query = "275"
    /\ LET similarities == ret.similarities
           filtered == filtered_indices(chunks, call.args.topic, call.args.language)
           tops == IF filtered # {}
                   THEN IF \E i \in filtered : i > Len(similarities)
                        THEN {}
                        ELSE LET order == Ascending(filtered)
                                 filtered_sims == [n \in 1..Len(order) |->
                                                      <<order[n], similarities[order[n]]>>]
                             IN  {Take(SortedDesc(filtered_sims), call.args.top_k)}
                   ELSE {LET top == Take(Reverse(order), call.args.top_k)
                         IN  [n \in 1..Len(top) |-> <<top[n], similarities[top[n]]>>] :
                            order \in Argsorts(1..Len(similarities), similarities)}
       IN  IF tops = {}
           THEN /\ ret' = [ret EXCEPT !.enumerated = Some(chunks),
                                      !.outcome = "IndexError"]
                /\ call' = [call EXCEPT !.query = "done"]
           ELSE \E top_indices \in tops :
                    /\ ret' = [ret EXCEPT !.enumerated = Some(chunks),
                                          !.top_indices = top_indices]
                    /\ call' = [call EXCEPT !.query = "289"]
    /\ UNCHANGED <<dir, embed_fn, chunks, chunk_embeddings, index_file, pre>>

\* query, lines 289-290: results = [(self.chunks[i], float(score)) for ...]
QueryResults ==
    /\ call.query = "289"
    /\ IF \E n \in 1..Len(ret.top_indices) : ret.top_indices[n][1] > Len(chunks)
       THEN ret' = [ret EXCEPT !.outcome = "IndexError"]
       ELSE ret' = [ret EXCEPT !.outcome = "ok",
                               !.results = Some(Results(chunks, ret.top_indices))]
    /\ call' = [call EXCEPT !.query = "done"]
    /\ UNCHANGED <<dir, embed_fn, chunks, chunk_embeddings, index_file, pre>>

NextInterleave ==
    \/ BuildTest \/ LoadChunks \/ LoadMatrix \/ AttachEmbeddings \/ AssignMatrix
    \/ SaveIndex
    \/ QueryTest \/ QueryDot \/ QueryNorm \/ QueryFilter \/ QueryResults

SpecInterleave == InitInterleave /\ [][NextInterleave]_vars

\* C25: a query that runs while build_index runs on the same object ends with the
\* not-ready error, or it ranks with a matrix that has one row for each chunk of
\* the chunk list it reads: the two reads of the matrix give the same number of
\* rows, that number is the length of the chunk list of the filter loop, and the
\* query ends with no other exception
C25_NoPartialIndex ==
    /\ ret.outcome \in {"", "ok", "ValueError: Index not built"}
    /\ (ret.dot # None /\ ret.norm # None) => Len(ret.dot[1]) = Len(ret.norm[1])
    /\ (ret.dot # None /\ ret.enumerated # None) =>
           Len(ret.dot[1]) = Len(ret.enumerated[1])

\* the object and the artifact hold the same number of chunks when the calls begin
SameSizeArtifact ==
    pre.index_file # None => Len(Item(pre.index_file[1], S_chunks).v) = Len(pre.chunks)

\* the same for the objects whose chunk list is as long as that of the artifact
C25_NoPartialIndexSameSize == SameSizeArtifact => C25_NoPartialIndex

\* the query ranked between the two assignments of _load_index
C25_BetweenAssignments ==
    ~( /\ call.build = "241"
       /\ ret.enumerated = Some(chunks)
       /\ ret.dot = chunk_embeddings
       /\ Len(chunks) # Len(chunk_embeddings[1]) )

====
